---- MODULE Spec2Model ----
(***************************************************************************)
(* Branching chat: the conversation / message store, the fork engine       *)
(* (features/chat/service.ts, features/chat/repository.ts) and the send    *)
(* route's stream relay (app/api/chat/send/route.ts).                      *)
(*                                                                         *)
(* Text is modelled as a sequence of tokens: the token "(branch)" is the   *)
(* literal text "(branch)", every other token is text that does not        *)
(* contain it.  A message's createdAt is the store's now() when its INSERT *)
(* statement ran: every row of one statement gets the same value, a later  *)
(* statement a later one.  The code compares createdAt only between rows   *)
(* of one conversation, so the model keeps it per conversation: the number *)
(* of the INSERT statement among those into that conversation.  Ids are    *)
(* fresh on every insert (gen_random_uuid()): the model numbers them.      *)
(***************************************************************************)
EXTENDS Integers, Sequences, FiniteSets, TLC

\* ---------------------------------------------------------------- bounds
MaxConvs == 3
MaxLen == 2
MaxChunks == 2
\* Conversations that send requests without a conversationId create.
MaxSendConvs == 1

\* ------------------------------------------------------------- constants
NULL == 0
ForkProcs == {"f1", "f2"}
Turns == {[role |-> "user", content |-> <<"hi">>],
          [role |-> "assistant", content |-> <<"Hello">>]}
BranchMarker == "(branch)"
Titles == {<<"Story">>, <<"(branch)", "notes">>}
UserContents == {<<"hi">>}
TitleLimit == 50
HighWaterMark == 1
ConvIds == 1..MaxConvs
MsgIds == 1..(MaxConvs * (MaxLen + 1))
\* The ids of the rows that requests admitted by HasRoom insert.
AppendedIds == {(c - 1) * (MaxLen + 1) + k : c \in ConvIds, k \in 1..MaxLen}

VARIABLES
  conversations,  \* rows of chat_conversations
  messages,       \* rows of chat_messages
  nextConvId,     \* the next fresh conversation id
  fork,           \* per fork request: position and locals of forkConversation
  send            \* the send request: position and locals of POST /api/chat/send,
                  \* the provider's stream and the response stream

vars == <<conversations, messages, nextConvId, fork, send>>

\* --------------------------------------------------------------- helpers
NoRow == [id |-> NULL]

Range(s) == {s[i] : i \in 1..Len(s)}

Min(S) == CHOOSE x \in S : \A y \in S : x <= y

RECURSIVE Perms(_)
Perms(S) ==
  IF S = {} THEN {<<>>}
  ELSE UNION {{<<x>> \o p : p \in Perms(S \ {x})} : x \in S}

\* ORDER BY created_at ASC: every sequence of the rows that is ascending in
\* createdAt; rows with equal createdAt come in an order the query does not fix.
RECURSIVE OrderByCreatedAt(_)
OrderByCreatedAt(rows) ==
  IF rows = {} THEN {<<>>}
  ELSE LET t == Min({r.createdAt : r \in rows})
           first == {r \in rows : r.createdAt = t}
       IN UNION {{p \o rest : rest \in OrderByCreatedAt(rows \ first)} : p \in Perms(first)}

\* ------------------------------------------------------------ repository
findConversationById(id) ==
  IF \E c \in conversations : c.id = id
  THEN CHOOSE c \in conversations : c.id = id
  ELSE NoRow

findMessageById(id) ==
  IF \E m \in messages : m.id = id
  THEN CHOOSE m \in messages : m.id = id
  ELSE NoRow

findMessagesByConversationId(conversationId) ==
  OrderByCreatedAt({m \in messages : m.conversationId = conversationId})

\* Mutant: lt where the code has lte.
findMessagesBeforeId(conversationId, messageCreatedAt) ==
  OrderByCreatedAt({m \in messages :
      m.conversationId = conversationId /\ m.createdAt < messageCreatedAt})

findMessagesUpToId(conversationId, messageCreatedAt) ==
  OrderByCreatedAt({m \in messages :
      m.conversationId = conversationId /\ m.createdAt <= messageCreatedAt})

MessagesOf(conversationId) == {m \in messages : m.conversationId = conversationId}

Exists(conversationId) == \E c \in conversations : c.id = conversationId

Max(S) == CHOOSE x \in S : \A y \in S : x >= y

\* now() for an INSERT into the conversation: later than every row it holds.
Now(conversationId) == Max({0} \cup {m.createdAt : m \in MessagesOf(conversationId)}) + 1

\* A fresh id for the i-th row of an INSERT into the conversation (a
\* conversation of the model holds at most MaxLen + 1 rows).
FreshMessageId(conversationId, i) ==
  (conversationId - 1) * (MaxLen + 1) + Cardinality(MessagesOf(conversationId)) + i

\* The rows one INSERT INTO chat_messages ... VALUES (...), (...) adds; pos is
\* the row's place in the statement, which the table does not record.
NewMessageRows(conversationId, values) ==
  {[id |-> FreshMessageId(conversationId, i), conversationId |-> conversationId,
    role |-> values[i].role, content |-> values[i].content,
    createdAt |-> Now(conversationId), pos |-> i] : i \in 1..Len(values)}

NewConversationRow(title, parent, branchFrom) ==
  [id |-> nextConvId, title |-> title, parentConversationId |-> parent,
   branchFromMessageId |-> branchFrom]

\* Mutant: the lineage columns have no foreign keys.
NoConversationFks(parent, branchFrom) == TRUE

\* Foreign keys of chat_conversations, checked on INSERT.
ConversationFksHold(parent, branchFrom) ==
  /\ parent = NULL \/ \E c \in conversations : c.id = parent
  /\ branchFrom = NULL \/ \E m \in messages : m.id = branchFrom

\* Mutant: parent_conversation_id is ON DELETE CASCADE, so forks go with
\* their parent.
ConversationsAfterCascade(id) ==
  {c \in conversations : c.id # id /\ c.parentConversationId # id}

\* Mutant: only the parent link is cleared; the branch point keeps the id of
\* the deleted message.
ConversationsAfterDeleteParentOnly(id) ==
  {[c EXCEPT !.parentConversationId = IF @ = id THEN NULL ELSE @]
     : c \in {x \in conversations : x.id # id}}

\* DELETE FROM chat_conversations WHERE id = ...: the row, its messages
\* (ON DELETE CASCADE), and the lineage links to either (ON DELETE SET NULL).
ConversationsAfterDelete(id) ==
  LET gone == {m.id : m \in {x \in messages : x.conversationId = id}}
  IN {[c EXCEPT !.parentConversationId = IF @ = id THEN NULL ELSE @,
                !.branchFromMessageId = IF @ \in gone THEN NULL ELSE @]
        : c \in {x \in conversations : x.id # id}}

MessagesAfterDelete(id) == {m \in messages : m.conversationId # id}

\* --------------------------------------------------------------- service
Includes(title, token) == \E i \in 1..Len(title) : title[i] = token

\* Mutant: the marker is appended whatever the title holds.
AlwaysAppendMarker(title) == Append(title, BranchMarker)

BranchTitle(title) ==
  IF Includes(title, BranchMarker) THEN title ELSE Append(title, BranchMarker)

CopyValues(rows) == [i \in 1..Len(rows) |-> [role |-> rows[i].role, content |-> rows[i].content]]

IdleFork ==
  [pc |-> "idle", conversationId |-> NULL, messageId |-> NULL,
   sourceConversation |-> NoRow, forkMessage |-> NoRow, messagesToCopy |-> <<>>,
   newConversation |-> NoRow, error |-> "none"]

\* The send request before it starts; upstream and fullResponse are the two
\* halves of streamChatCompletion's result, the rest is the wrapped stream.
\* saved records the log line chat.assistant_message_saved (route 87);
\* cancelledBeforeEnd records that the client left while the provider's stream
\* was still open.
IdleSend ==
  [pc |-> "idle", conversationId |-> NULL, content |-> <<>>, userMessage |-> NoRow,
   history |-> <<>>,
   emitted |-> <<>>, readPos |-> 0, upstream |-> "none", fullResponse |-> "none",
   pull |-> "idle", state |-> "none", closeRequested |-> FALSE, queue |-> <<>>,
   received |-> <<>>, saved |-> FALSE, cancelledBeforeEnd |-> FALSE]

Init ==
  /\ conversations = {}
  /\ messages = {}
  /\ nextConvId = 1
  /\ fork = [p \in ForkProcs |-> IdleFork]
  /\ send = IdleSend

\* POST /api/chat/conversations: createConversation(title)
CreateConversation(title) ==
  /\ nextConvId <= MaxConvs
  /\ conversations' = conversations \cup {NewConversationRow(title, NULL, NULL)}
  /\ nextConvId' = nextConvId + 1
  /\ UNCHANGED <<messages, fork, send>>

\* Mutant: the UPDATE has no WHERE clause.
UpdateEveryConversation(id, title) ==
  /\ \E c \in conversations : c.id = id
  /\ conversations' = {[c EXCEPT !.title = title] : c \in conversations}
  /\ UNCHANGED <<messages, nextConvId, fork, send>>

\* PATCH: updateConversation(id, title); a missing id changes nothing.
UpdateConversation(id, title) ==
  /\ \E c \in conversations : c.id = id
  /\ conversations' = {IF c.id = id THEN [c EXCEPT !.title = title] ELSE c
                         : c \in conversations}
  /\ UNCHANGED <<messages, nextConvId, fork, send>>

\* DELETE: deleteConversation(id)
DeleteConversation(id) ==
  /\ \E c \in conversations : c.id = id
  /\ conversations' = ConversationsAfterDelete(id)
  /\ messages' = MessagesAfterDelete(id)
  /\ UNCHANGED <<nextConvId, fork, send>>

\* ------------------------------------------------------- forkConversation
\* Mutant: the message is looked up before the conversation.
ForkFindMessageFirst(p, conversationId, messageId) ==
  /\ fork[p].pc = "idle"
  /\ LET sourceConversation == findConversationById(conversationId)
         forkMessage == findMessageById(messageId)
     IN fork' = [fork EXCEPT ![p] =
          IF forkMessage = NoRow
          THEN [IdleFork EXCEPT !.pc = "failed", !.conversationId = conversationId,
                                !.messageId = messageId, !.error = "MESSAGE_NOT_FOUND"]
          ELSE IF sourceConversation = NoRow
          THEN [IdleFork EXCEPT !.pc = "failed", !.conversationId = conversationId,
                                !.messageId = messageId, !.error = "CONVERSATION_NOT_FOUND"]
          ELSE [IdleFork EXCEPT !.pc = "findMessage", !.conversationId = conversationId,
                                !.messageId = messageId,
                                !.sourceConversation = sourceConversation]]
  /\ UNCHANGED <<conversations, messages, nextConvId, send>>

\* service.ts 99-104: the source conversation must exist.
ForkFindConversation(p, conversationId, messageId) ==
  /\ fork[p].pc = "idle"
  /\ LET sourceConversation == findConversationById(conversationId)
     IN fork' = [fork EXCEPT ![p] =
          IF sourceConversation = NoRow
          THEN [IdleFork EXCEPT !.pc = "failed", !.conversationId = conversationId,
                                !.messageId = messageId, !.error = "CONVERSATION_NOT_FOUND"]
          ELSE [IdleFork EXCEPT !.pc = "findMessage", !.conversationId = conversationId,
                                !.messageId = messageId,
                                !.sourceConversation = sourceConversation]]
  /\ UNCHANGED <<conversations, messages, nextConvId, send>>

\* errors.ts: the HTTP status each chat error carries.
statusCode(code) ==
  CASE code = "CONVERSATION_NOT_FOUND" -> 404
    [] code = "MESSAGE_NOT_FOUND" -> 404
    [] code = "MESSAGE_NOT_IN_CONVERSATION" -> 400

\* Mutant: the branch row is inserted before the ownership check.
ForkCheckAfterInsert(p) ==
  /\ fork[p].pc = "findMessage"
  /\ LET forkMessage == findMessageById(fork[p].messageId)
         row == NewConversationRow(BranchTitle(fork[p].sourceConversation.title),
                                   fork[p].conversationId, fork[p].messageId)
     IN IF forkMessage = NoRow
        THEN /\ fork' = [fork EXCEPT ![p] = [@ EXCEPT !.pc = "failed",
                                                      !.error = "MESSAGE_NOT_FOUND"]]
             /\ UNCHANGED <<conversations, nextConvId>>
        ELSE IF forkMessage.conversationId # fork[p].conversationId
        THEN /\ nextConvId <= MaxConvs
             /\ conversations' = conversations \cup {row}
             /\ nextConvId' = nextConvId + 1
             /\ fork' = [fork EXCEPT ![p] = [@ EXCEPT !.pc = "failed", !.forkMessage = forkMessage,
                                                      !.error = "MESSAGE_NOT_IN_CONVERSATION"]]
        ELSE /\ fork' = [fork EXCEPT ![p] = [@ EXCEPT !.pc = "findUpTo",
                                                      !.forkMessage = forkMessage]]
             /\ UNCHANGED <<conversations, nextConvId>>
  /\ UNCHANGED <<messages, send>>

\* Mutant: the ownership check is left out.
ForkFindAnyMessage(p) ==
  /\ fork[p].pc = "findMessage"
  /\ LET forkMessage == findMessageById(fork[p].messageId)
     IN fork' = [fork EXCEPT ![p] =
          IF forkMessage = NoRow
          THEN [@ EXCEPT !.pc = "failed", !.error = "MESSAGE_NOT_FOUND"]
          ELSE [@ EXCEPT !.pc = "findUpTo", !.forkMessage = forkMessage]]
  /\ UNCHANGED <<conversations, messages, nextConvId, send>>

\* service.ts 106-117: the message must exist and belong to the conversation.
ForkFindMessage(p) ==
  /\ fork[p].pc = "findMessage"
  /\ LET forkMessage == findMessageById(fork[p].messageId)
     IN fork' = [fork EXCEPT ![p] =
          IF forkMessage = NoRow
          THEN [@ EXCEPT !.pc = "failed", !.error = "MESSAGE_NOT_FOUND"]
          ELSE IF forkMessage.conversationId # fork[p].conversationId
          THEN [@ EXCEPT !.pc = "failed", !.forkMessage = forkMessage,
                         !.error = "MESSAGE_NOT_IN_CONVERSATION"]
          ELSE [@ EXCEPT !.pc = "findUpTo", !.forkMessage = forkMessage]]
  /\ UNCHANGED <<conversations, messages, nextConvId, send>>

\* service.ts 119-120: the messages up to the fork point.
ForkFindMessagesUpTo(p) ==
  /\ fork[p].pc = "findUpTo"
  /\ \E rows \in findMessagesUpToId(fork[p].conversationId, fork[p].forkMessage.createdAt) :
       fork' = [fork EXCEPT ![p] = [@ EXCEPT !.pc = "insertConversation",
                                             !.messagesToCopy = rows]]
  /\ UNCHANGED <<conversations, messages, nextConvId, send>>

\* Mutant: the branch row names itself as its parent.
createSelfParentRow(p) ==
  LET f == fork[p]
      row == NewConversationRow(BranchTitle(f.sourceConversation.title),
                                nextConvId, f.messageId)
  IN IF ConversationFksHold(f.conversationId, f.messageId)
     THEN /\ conversations' = conversations \cup {row}
          /\ nextConvId' = nextConvId + 1
          /\ fork' = [fork EXCEPT ![p] =
               IF f.messagesToCopy = <<>>
               THEN [@ EXCEPT !.pc = "done", !.newConversation = row]
               ELSE [@ EXCEPT !.pc = "insertMessages", !.newConversation = row]]
     ELSE /\ fork' = [fork EXCEPT ![p] = [@ EXCEPT !.pc = "failed", !.error = "STORE_ERROR"]]
          /\ UNCHANGED <<conversations, nextConvId>>

\* Mutant: the branch row takes over the source's lineage instead of pointing
\* at the source.
createSiblingRow(p) ==
  LET f == fork[p]
      row == NewConversationRow(BranchTitle(f.sourceConversation.title),
                                f.sourceConversation.parentConversationId,
                                f.sourceConversation.branchFromMessageId)
  IN IF ConversationFksHold(row.parentConversationId, row.branchFromMessageId)
     THEN /\ conversations' = conversations \cup {row}
          /\ nextConvId' = nextConvId + 1
          /\ fork' = [fork EXCEPT ![p] =
               IF f.messagesToCopy = <<>>
               THEN [@ EXCEPT !.pc = "done", !.newConversation = row]
               ELSE [@ EXCEPT !.pc = "insertMessages", !.newConversation = row]]
     ELSE /\ fork' = [fork EXCEPT ![p] = [@ EXCEPT !.pc = "failed", !.error = "STORE_ERROR"]]
          /\ UNCHANGED <<conversations, nextConvId>>

\* repository createConversationWithMessages, first statement (part_003 90-95):
\* INSERT INTO chat_conversations; a broken foreign key rejects the statement.
createConversationRow(p) ==
  LET f == fork[p]
      row == NewConversationRow(BranchTitle(f.sourceConversation.title),
                                f.conversationId, f.messageId)
  IN IF ConversationFksHold(f.conversationId, f.messageId)
     THEN /\ conversations' = conversations \cup {row}
          /\ nextConvId' = nextConvId + 1
          /\ fork' = [fork EXCEPT ![p] =
               IF f.messagesToCopy = <<>>
               THEN [@ EXCEPT !.pc = "done", !.newConversation = row]
               ELSE [@ EXCEPT !.pc = "insertMessages", !.newConversation = row]]
     ELSE /\ fork' = [fork EXCEPT ![p] = [@ EXCEPT !.pc = "failed", !.error = "STORE_ERROR"]]
          /\ UNCHANGED <<conversations, nextConvId>>

ForkInsertConversation(p) ==
  /\ fork[p].pc = "insertConversation"
  /\ nextConvId <= MaxConvs
  /\ createConversationRow(p)
  /\ UNCHANGED <<messages, send>>

\* Mutant: the copies go to the conversation inserted last, not to the one
\* this request inserted.
copyMessagesToLatest(p, storeOk) ==
  LET f == fork[p]
      rows == NewMessageRows(nextConvId - 1, CopyValues(f.messagesToCopy))
  IN IF storeOk /\ \E c \in conversations : c.id = nextConvId - 1
     THEN /\ messages' = messages \cup rows
          /\ fork' = [fork EXCEPT ![p] = [@ EXCEPT !.pc = "done"]]
     ELSE /\ fork' = [fork EXCEPT ![p] = [@ EXCEPT !.pc = "failed", !.error = "STORE_ERROR"]]
          /\ UNCHANGED messages

\* Mutant: chat_messages.conversation_id carries no foreign key, so the INSERT
\* succeeds whether or not the conversation row is still there.
copyMessagesNoFk(p, storeOk) ==
  LET f == fork[p]
      rows == NewMessageRows(f.newConversation.id, CopyValues(f.messagesToCopy))
  IN IF storeOk
     THEN /\ messages' = messages \cup rows
          /\ fork' = [fork EXCEPT ![p] = [@ EXCEPT !.pc = "done"]]
     ELSE /\ fork' = [fork EXCEPT ![p] = [@ EXCEPT !.pc = "failed", !.error = "STORE_ERROR"]]
          /\ UNCHANGED messages

\* Mutant: the selected rows are moved to the branch (an UPDATE of their
\* conversation_id) instead of being copied.
moveMessages(p, storeOk) ==
  LET f == fork[p]
      rows == NewMessageRows(f.newConversation.id, CopyValues(f.messagesToCopy))
  IN IF storeOk /\ \E c \in conversations : c.id = f.newConversation.id
     THEN /\ messages' = (messages \ Range(f.messagesToCopy)) \cup rows
          /\ fork' = [fork EXCEPT ![p] = [@ EXCEPT !.pc = "done"]]
     ELSE /\ fork' = [fork EXCEPT ![p] = [@ EXCEPT !.pc = "failed", !.error = "STORE_ERROR"]]
          /\ UNCHANGED messages

\* repository createConversationWithMessages, second statement (part_003 97-105):
\* one INSERT INTO chat_messages with a row per copied message.  storeOk = FALSE
\* is the store rejecting the statement; so does a missing conversation row.
copyMessages(p, storeOk) ==
  LET f == fork[p]
      rows == NewMessageRows(f.newConversation.id, CopyValues(f.messagesToCopy))
  IN IF storeOk /\ \E c \in conversations : c.id = f.newConversation.id
     THEN /\ messages' = messages \cup rows
          /\ fork' = [fork EXCEPT ![p] = [@ EXCEPT !.pc = "done"]]
     ELSE /\ fork' = [fork EXCEPT ![p] = [@ EXCEPT !.pc = "failed", !.error = "STORE_ERROR"]]
          /\ UNCHANGED messages

ForkInsertMessages(p, storeOk) ==
  /\ fork[p].pc = "insertMessages"
  /\ Cardinality(MessagesOf(fork[p].newConversation.id)) + Len(fork[p].messagesToCopy) <= MaxLen
  /\ copyMessages(p, storeOk)
  /\ UNCHANGED <<conversations, nextConvId, send>>

\* The response was sent; the handler is free for the next request.
ForkReturn(p) ==
  /\ fork[p].pc \in {"done", "failed"}
  /\ fork' = [fork EXCEPT ![p] = IdleFork]
  /\ UNCHANGED <<conversations, messages, nextConvId, send>>

\* ------------------------------------------------------ POST /api/chat/send
RECURSIVE TrimStart(_)
TrimStart(text) ==
  IF text # <<>> /\ Head(text) = " " THEN TrimStart(Tail(text)) ELSE text

RECURSIVE TrimEnd(_)
TrimEnd(text) ==
  IF text # <<>> /\ text[Len(text)] = " " THEN TrimEnd(SubSeq(text, 1, Len(text) - 1)) ELSE text

generateTitleFromMessage(content) ==
  LET trimmed == TrimEnd(TrimStart(content))
  IN IF Len(trimmed) <= TitleLimit THEN trimmed
     ELSE Append(SubSeq(trimmed, 1, TitleLimit), "...")

\* repository createMessage: one INSERT INTO chat_messages of one row; the
\* foreign key conversation_id rejects it when the conversation is missing.
createMessage(conversationId, role, content) ==
  messages' = messages \cup
     NewMessageRows(conversationId, <<[role |-> role, content |-> content]>>)

CanCreateMessage(conversationId, storeOk) ==
  storeOk /\ \E c \in conversations : c.id = conversationId

\* The model's bound: a request may append to a conversation that holds fewer
\* than MaxLen messages (the reply to an admitted user message always fits).
HasRoom(conversationId) == Cardinality(MessagesOf(conversationId)) < MaxLen

\* service addMessage(conversationId, role, content)
AddMessage(conversationId, role, content) ==
  /\ HasRoom(conversationId)
  /\ role = IF Cardinality(MessagesOf(conversationId)) % 2 = 0 THEN "user" ELSE "assistant"
  /\ CanCreateMessage(conversationId, TRUE)
  /\ createMessage(conversationId, role, content)
  /\ UNCHANGED <<conversations, nextConvId, fork, send>>

\* Mutant: the user message is not saved before the history is read.
skipUserMessage(conversationId, content) ==
  IF CanCreateMessage(conversationId, TRUE)
  THEN /\ send' = [send EXCEPT !.pc = "getHistory", !.conversationId = conversationId,
                               !.content = content,
                               !.userMessage = [id |-> FreshMessageId(conversationId, 1),
                                                createdAt |-> Now(conversationId)]]
       /\ UNCHANGED messages
  ELSE /\ send' = [send EXCEPT !.pc = "failed", !.conversationId = conversationId,
                               !.content = content]
       /\ UNCHANGED messages

\* route 64-65: addMessage(conversationId, "user", content)
addUserMessage(conversationId, content) ==
  IF CanCreateMessage(conversationId, TRUE)
  THEN /\ createMessage(conversationId, "user", content)
       /\ send' = [send EXCEPT !.pc = "getHistory", !.conversationId = conversationId,
                               !.content = content,
                               !.userMessage = [id |-> FreshMessageId(conversationId, 1),
                                                createdAt |-> Now(conversationId)]]
  ELSE /\ send' = [send EXCEPT !.pc = "failed", !.conversationId = conversationId,
                               !.content = content]
       /\ UNCHANGED messages

\* route 55-62: no conversationId in the request, so a conversation is created.
SendCreateConversation(content) ==
  /\ send.pc = "idle"
  /\ nextConvId <= MaxSendConvs
  /\ conversations' = conversations \cup
       {NewConversationRow(generateTitleFromMessage(content), NULL, NULL)}
  /\ nextConvId' = nextConvId + 1
  /\ send' = [send EXCEPT !.pc = "addUser", !.conversationId = nextConvId, !.content = content]
  /\ UNCHANGED <<messages, fork>>

SendAddUserMessage ==
  /\ send.pc = "addUser"
  /\ HasRoom(send.conversationId)
  /\ addUserMessage(send.conversationId, send.content)
  /\ UNCHANGED <<conversations, nextConvId, fork>>

\* route 56-65 with a conversationId in the request: the first await is addMessage.
SendToConversation(content, conversationId) ==
  /\ send.pc = "idle"
  /\ HasRoom(conversationId)
  /\ addUserMessage(conversationId, content)
  /\ UNCHANGED <<conversations, nextConvId, fork>>

\* route 67-71: getMessages, then streamChatCompletion, which opens the
\* provider's stream or throws.
SendGetHistory(providerOk) ==
  /\ send.pc = "getHistory"
  /\ \E history \in findMessagesByConversationId(send.conversationId) :
       send' = IF providerOk
               THEN [send EXCEPT !.pc = "streaming", !.history = history,
                                 !.upstream = "open", !.fullResponse = "pending",
                                 !.state = "readable"]
               ELSE [send EXCEPT !.pc = "failed", !.history = history]
  /\ UNCHANGED <<conversations, messages, nextConvId, fork>>

\* ---- the provider (streamChatCompletion's stream and fullResponse)
ChunkText(k) == IF k = 1 THEN "Hello" ELSE IF k = 2 THEN " world" ELSE "!"

ChunkFrame(text) == [type |-> "chunk", payload |-> text]
DoneFrame == [type |-> "done", payload |-> "saved: true"]
SaveErrorFrame == [type |-> "error", payload |-> "Failed to save response"]

ProviderEmit ==
  /\ send.upstream = "open"
  /\ Len(send.emitted) < MaxChunks
  /\ send' = [send EXCEPT !.emitted = Append(@, ChunkText(Len(@) + 1))]
  /\ UNCHANGED <<conversations, messages, nextConvId, fork>>

ProviderComplete ==
  /\ send.upstream = "open"
  /\ send' = [send EXCEPT !.upstream = "ended", !.fullResponse = "resolved"]
  /\ UNCHANGED <<conversations, messages, nextConvId, fork>>

\* Generation fails: fullResponse rejects, and the chunk stream either errors
\* (streamErrors) or just ends.
ProviderFail(streamErrors) ==
  /\ send.upstream = "open"
  /\ send' = [send EXCEPT !.upstream = IF streamErrors THEN "errored" ELSE "ended",
                          !.fullResponse = "rejected"]
  /\ UNCHANGED <<conversations, messages, nextConvId, fork>>

\* ---- the wrapped stream (route 74-101)
\* controller.enqueue(frame): throws unless the stream is readable and not closing.
CanEnqueue == send.state = "readable" /\ ~send.closeRequested

\* The stream calls pull when it is readable, started, not already pulling, and
\* its queue is below the high-water mark of 1.
PullStart ==
  /\ send.pc = "streaming"
  /\ CanEnqueue
  /\ send.pull = "idle"
  /\ Len(send.queue) < HighWaterMark
  /\ send' = [send EXCEPT !.pull = "reading"]
  /\ UNCHANGED <<conversations, messages, nextConvId, fork>>

\* Mutant: the text so far is persisted with every chunk.
PullReadChunkAndSave ==
  /\ send.pull = "reading"
  /\ send.upstream # "errored"
  /\ send.readPos < Len(send.emitted)
  /\ Exists(send.conversationId)
  /\ createMessage(send.conversationId, "assistant", SubSeq(send.emitted, 1, send.readPos + 1))
  /\ send' = [send EXCEPT !.readPos = @ + 1, !.pull = "idle",
                          !.queue = IF CanEnqueue
                                    THEN Append(@, ChunkFrame(send.emitted[send.readPos + 1]))
                                    ELSE @]
  /\ UNCHANGED <<conversations, nextConvId, fork>>

\* Mutant: a pull forwards only the newest chunk the provider has emitted.
PullReadNewestChunk ==
  /\ send.pull = "reading"
  /\ send.upstream # "errored"
  /\ send.readPos < Len(send.emitted)
  /\ send' = [send EXCEPT !.readPos = Len(send.emitted), !.pull = "idle",
                          !.queue = IF CanEnqueue
                                    THEN Append(@, ChunkFrame(send.emitted[Len(send.emitted)]))
                                    ELSE @]
  /\ UNCHANGED <<conversations, messages, nextConvId, fork>>

\* route 77-81: reader.read() gave a chunk; it is forwarded.
PullReadChunk ==
  /\ send.pull = "reading"
  /\ send.upstream # "errored"
  /\ send.readPos < Len(send.emitted)
  /\ send' = [send EXCEPT !.readPos = @ + 1, !.pull = "idle",
                          !.queue = IF CanEnqueue
                                    THEN Append(@, ChunkFrame(send.emitted[send.readPos + 1]))
                                    ELSE @]
  /\ UNCHANGED <<conversations, messages, nextConvId, fork>>

\* route 77: reader.read() rejects; pull rejects and the stream is errored.
PullReadError ==
  /\ send.pull = "reading"
  /\ send.upstream = "errored"
  /\ send' = [send EXCEPT !.pull = "idle",
                          !.state = IF @ = "readable" THEN "errored" ELSE @,
                          !.queue = <<>>]
  /\ UNCHANGED <<conversations, messages, nextConvId, fork>>

\* route 91-99: the catch block's frame and controller.close(); when enqueue
\* throws (the stream is no longer readable) pull rejects before close().
EnqueueAndClose(frame) ==
  IF CanEnqueue
  THEN [send EXCEPT !.pull = "idle", !.queue = Append(@, frame), !.closeRequested = TRUE]
  ELSE [send EXCEPT !.pull = "idle"]

\* Mutant: the save does not wait for fullResponse to settle.
PullReadDoneThenSave ==
  /\ send.pull = "reading"
  /\ send.upstream = "ended"
  /\ send.readPos = Len(send.emitted)
  /\ send' = [send EXCEPT !.pull = "saving"]
  /\ UNCHANGED <<conversations, messages, nextConvId, fork>>

\* route 77-85: reader.read() gave done; fullResponse is awaited.
PullReadDone ==
  /\ send.pull = "reading"
  /\ send.upstream = "ended"
  /\ send.readPos = Len(send.emitted)
  /\ send' = IF send.fullResponse = "rejected"
             THEN EnqueueAndClose(SaveErrorFrame)
             ELSE [send EXCEPT !.pull = "saving"]
  /\ UNCHANGED <<conversations, messages, nextConvId, fork>>

\* Mutant: a failed save takes the request's user message back.
saveOrRollBack(storeOk) ==
  IF CanCreateMessage(send.conversationId, storeOk)
  THEN /\ createMessage(send.conversationId, "assistant", send.emitted)
       /\ send' = [EnqueueAndClose(DoneFrame) EXCEPT !.saved = TRUE]
  ELSE /\ send' = EnqueueAndClose(SaveErrorFrame)
       /\ messages' = {m \in messages : m.id # send.userMessage.id}

\* route 86-99: addMessage(conversationId, "assistant", fullText), then the
\* terminal frame.  fullText is the text of every chunk the provider emitted.
saveAssistantMessage(storeOk) ==
  IF CanCreateMessage(send.conversationId, storeOk)
  THEN /\ createMessage(send.conversationId, "assistant", send.emitted)
       /\ send' = [EnqueueAndClose(DoneFrame) EXCEPT !.saved = TRUE]
  ELSE /\ send' = EnqueueAndClose(SaveErrorFrame)
       /\ UNCHANGED messages

PullSave(storeOk) ==
  /\ send.pull = "saving"
  /\ saveAssistantMessage(storeOk)
  /\ UNCHANGED <<conversations, nextConvId, fork>>

\* ---- the client of the response stream
ClientRead ==
  /\ send.state = "readable"
  /\ send.queue # <<>>
  /\ send' = [send EXCEPT !.received = Append(@, Head(send.queue)),
                          !.queue = Tail(@),
                          !.state = IF send.closeRequested /\ Len(send.queue) = 1
                                    THEN "closed" ELSE @]
  /\ UNCHANGED <<conversations, messages, nextConvId, fork>>

\* The client disconnects: the response stream is cancelled, its queue dropped.
\* The wrapped stream has no cancel callback, so nothing else is told.
ClientCancel ==
  /\ send.state = "readable"
  /\ send' = [send EXCEPT !.state = "cancelled", !.queue = <<>>,
                          !.cancelledBeforeEnd = (send.upstream = "open")]
  /\ UNCHANGED <<conversations, messages, nextConvId, fork>>

\* The request is over: an error response, or the response stream has ended and
\* no pull is pending.
SendReturn ==
  /\ \/ send.pc = "failed"
     \/ send.pc = "streaming" /\ send.state \in {"closed", "errored", "cancelled"}
                              /\ send.pull = "idle"
  /\ send' = IdleSend
  /\ UNCHANGED <<conversations, messages, nextConvId, fork>>

ForkNext(procs, msgIds) ==
  \/ \E p \in procs, c \in ConvIds, m \in msgIds : ForkFindConversation(p, c, m)
  \/ \E p \in procs : ForkFindMessage(p)
  \/ \E p \in procs : ForkFindMessagesUpTo(p)
  \/ \E p \in procs : ForkInsertConversation(p)
  \/ \E p \in procs, storeOk \in BOOLEAN : ForkInsertMessages(p, storeOk)
  \/ \E p \in procs : ForkReturn(p)

SendNext ==
  \/ \E content \in UserContents : SendCreateConversation(content)
  \/ SendAddUserMessage
  \/ \E content \in UserContents, c \in ConvIds : SendToConversation(content, c)
  \/ \E providerOk \in BOOLEAN : SendGetHistory(providerOk)
  \/ ProviderEmit
  \/ ProviderComplete
  \/ \E streamErrors \in BOOLEAN : ProviderFail(streamErrors)
  \/ PullStart
  \/ PullReadChunk
  \/ PullReadError
  \/ PullReadDone
  \/ \E storeOk \in BOOLEAN : PullSave(storeOk)
  \/ ClientRead
  \/ ClientCancel
  \/ SendReturn

\* The fork engine over the store: conversations are created, renamed, deleted
\* and appended to through the service while fork requests run.
NextFork ==
  \/ \E t \in Titles : CreateConversation(t)
  \/ \E id \in ConvIds, t \in Titles : UpdateConversation(id, t)
  \/ \E id \in ConvIds : DeleteConversation(id)
  \/ \E c \in ConvIds, turn \in Turns : AddMessage(c, turn.role, turn.content)
  \/ ForkNext({"f1"}, AppendedIds)

SpecFork == Init /\ [][NextFork]_vars

\* ----------------------------------------------------- fork engine: claims
Value(m) == [role |-> m.role, content |-> m.content]

\* The fork of p succeeded and its branch still holds the copies and nothing
\* else (messages are never updated, and leave only with their conversation).
BranchAsCopied(p) ==
  /\ fork[p].pc = "done"
  /\ Exists(fork[p].newConversation.id)
  /\ Cardinality(MessagesOf(fork[p].newConversation.id)) = Len(fork[p].messagesToCopy)

\* The messages of the source with createdAt <= the cutoff's createdAt.
SourcePrefix(p) ==
  {m \in MessagesOf(fork[p].conversationId) : m.createdAt <= fork[p].forkMessage.createdAt}

Count(rows, v) == Cardinality({m \in rows : Value(m) = v})

C2_ReadBackKeepsOrder ==
  \A p \in ForkProcs :
    BranchAsCopied(p) =>
      \A rows \in findMessagesByConversationId(fork[p].newConversation.id) :
        CopyValues(rows) = CopyValues(fork[p].messagesToCopy)

\* x comes after m in its conversation: inserted by a later statement, or
\* later in the same statement.
After(m, x) ==
  x.createdAt > m.createdAt \/ (x.createdAt = m.createdAt /\ x.pos > m.pos)

\* C3: a successful fork at m copies m and what the source orders before m,
\* and no message the source orders after m.
C3_NothingAfterCutoffCopied ==
  \A p \in ForkProcs :
    (fork[p].pc = "done" /\ Exists(fork[p].conversationId)) =>
      Range(fork[p].messagesToCopy) =
        {x \in MessagesOf(fork[p].conversationId) : ~After(fork[p].forkMessage, x)}

\* Two forks made from the same conversation at the same message.
SameFork(a, b) ==
  /\ a.id # b.id
  /\ a.parentConversationId # NULL
  /\ a.parentConversationId = b.parentConversationId
  /\ a.branchFromMessageId # NULL
  /\ a.branchFromMessageId = b.branchFromMessageId

\* An append to, a rename of, or the deletion of the conversation.
OperationOn(id) ==
  \/ \E turn \in Turns : AddMessage(id, turn.role, turn.content)
  \/ \E t \in Titles : UpdateConversation(id, t)
  \/ DeleteConversation(id)

SameForkIdsDisjoint ==
  \A a, b \in conversations :
    SameFork(a, b) =>
      {m.id : m \in MessagesOf(a.id)} \cap {m.id : m \in MessagesOf(b.id)} = {}

SameForkFrame ==
  \A a, b \in conversations :
    (SameFork(a, b) /\ OperationOn(a.id)) =>
      /\ b \in conversations'
      /\ {m \in messages' : m.conversationId = b.id} = MessagesOf(b.id)

\* C10: two forks made from the same (C, m) have different conversation ids and
\* disjoint message ids, and an append to, a rename of or the deletion of one
\* leaves the other's row and messages as they were.
C10_ForksAreIndependent == []SameForkIdsDisjoint /\ [][SameForkFrame]_vars

\* C10 witness: two forks of the same (C, m) hold their two copies each (only a
\* copy is the second row of its statement), and one of them was renamed.
C10_Witness ==
  \E a, b \in conversations :
    /\ SameFork(a, b)
    /\ \E x \in MessagesOf(a.id) : x.pos = 2
    /\ \E y \in MessagesOf(b.id) : y.pos = 2
    /\ a.title # b.title

\* C4: when the insert of the copies fails after the branch row was inserted,
\* no branch row stays persisted.
C4_FailedCopyLeavesNoBranch ==
  \A p \in ForkProcs :
    (fork[p].pc = "failed" /\ fork[p].newConversation # NoRow) =>
      ~Exists(fork[p].newConversation.id)

\* The deletion of P leaves every other conversation in place, with its title
\* and its messages, and no row pointing at P or at one of P's messages.
DeleteKeepsForks(P) ==
  /\ \A c \in conversations : c.id # P =>
        \E d \in conversations' :
          /\ d.id = c.id
          /\ d.title = c.title
          /\ d.parentConversationId = IF c.parentConversationId = P THEN NULL
                                      ELSE c.parentConversationId
          /\ {m \in messages' : m.conversationId = c.id} = MessagesOf(c.id)
  /\ \A d \in conversations' : d.id # P /\ d.parentConversationId # P
  /\ messages \ messages' = MessagesOf(P)

\* C11: deleteConversation(P) removes P's row and P's messages only: every fork
\* of P stays, with its messages unchanged and parentConversationId null.
C11_DeleteParentKeepsForks ==
  [][\A P \in ConvIds : DeleteConversation(P) => DeleteKeepsForks(P)]_vars

\* C11 witness: two forks holding their two copies each whose parent was
\* deleted (the first was complete before the second, and so the deletion, began).
C11_Witness ==
  \E a, b \in conversations :
    /\ a.id # b.id
    /\ a.parentConversationId = NULL /\ b.parentConversationId = NULL
    /\ \E m \in MessagesOf(a.id) : m.pos = 2
    /\ \E m \in MessagesOf(b.id) : m.pos = 2

\* C12: no step of forkConversation, in a run that succeeds or in one that
\* fails, changes or removes a conversation row or a message that exists: the
\* source's row and messages stay as they were.
\* (The steps of forkConversation are the steps that change a fork request's
\* position or locals.)
C12_ForkLeavesSourceUnchanged ==
  [][fork' # fork =>
       (conversations \subseteq conversations' /\ messages \subseteq messages')]_vars

\* C12 witness: a fork copied two messages and the source still holds its row
\* and both messages, as the fork read them.
C12_Witness ==
  \E p \in ForkProcs :
    /\ fork[p].pc = "done"
    /\ Len(fork[p].messagesToCopy) = 2
    /\ Range(fork[p].messagesToCopy) \subseteq messages
    /\ fork[p].sourceConversation \in conversations

\* The fork request of p has found its source conversation and stands before
\* the lookup of a message that exists and belongs to another conversation.
ForeignMessage(p) ==
  /\ fork[p].pc = "findMessage"
  /\ \E m \in messages : m.id = fork[p].messageId /\ m.conversationId # fork[p].conversationId

\* C13: a fork of an existing conversation at an existing message of another
\* conversation fails with MESSAGE_NOT_IN_CONVERSATION (status 400) and creates
\* no conversation: the lookup step reports it, and a request never goes on to
\* its writes with a message of another conversation.
C13_ForeignMessageRejected ==
  /\ [][\A p \in ForkProcs : (ForeignMessage(p) /\ fork'[p] # fork[p]) =>
           /\ fork'[p].pc = "failed"
           /\ fork'[p].error = "MESSAGE_NOT_IN_CONVERSATION"
           /\ statusCode(fork'[p].error) = 400
           /\ conversations' = conversations]_vars
  /\ [](\A p \in ForkProcs :
          /\ fork[p].error = "MESSAGE_NOT_IN_CONVERSATION" => fork[p].newConversation = NoRow
          /\ fork[p].pc \in {"findUpTo", "insertConversation", "insertMessages", "done"} =>
                fork[p].forkMessage.conversationId = fork[p].conversationId)

\* C13 witness: a fork of an existing conversation at a message that exists in
\* another conversation was rejected.
C13_Witness ==
  \E p \in ForkProcs :
    /\ fork[p].error = "MESSAGE_NOT_IN_CONVERSATION"
    /\ Exists(fork[p].conversationId)
    /\ fork[p].forkMessage \in messages

\* What each validation error tells about the lookups made before it: the
\* source was not found and the message never looked up; the source was found
\* and the message was not; both were found and the message is another
\* conversation's.
ChecksInOrder(p) ==
  /\ fork[p].error = "CONVERSATION_NOT_FOUND" =>
        fork[p].sourceConversation = NoRow /\ fork[p].forkMessage = NoRow
  /\ fork[p].error = "MESSAGE_NOT_FOUND" =>
        fork[p].sourceConversation # NoRow /\ fork[p].forkMessage = NoRow
  /\ fork[p].error = "MESSAGE_NOT_IN_CONVERSATION" =>
        /\ fork[p].sourceConversation # NoRow
        /\ fork[p].forkMessage # NoRow
        /\ fork[p].forkMessage.conversationId # fork[p].conversationId

\* C14: the three checks run in a fixed order and the first failure is the one
\* reported: a request for a missing conversation fails with
\* CONVERSATION_NOT_FOUND whatever its message id is; MESSAGE_NOT_FOUND is
\* reported only when the source was found, the ownership mismatch only when
\* both were.
C14_FirstFailedCheckReported ==
  /\ [][\A p \in ForkProcs :
           (fork[p].pc = "idle" /\ fork'[p] # fork[p] /\ ~Exists(fork'[p].conversationId)) =>
             fork'[p].pc = "failed" /\ fork'[p].error = "CONVERSATION_NOT_FOUND"]_vars
  /\ [](\A p \in ForkProcs : ChecksInOrder(p))

\* C14 witness: a missing conversation was reported for a request whose
\* message exists (in another conversation).
C14_Witness ==
  \E p \in ForkProcs :
    /\ fork[p].error = "CONVERSATION_NOT_FOUND"
    /\ \E m \in messages : m.id = fork[p].messageId

ValidationErrors ==
  {"CONVERSATION_NOT_FOUND", "MESSAGE_NOT_FOUND", "MESSAGE_NOT_IN_CONVERSATION"}

\* C15: a fork request that fails a validation check has written nothing: the
\* step that reports the failure leaves conversations and messages as they
\* were, and no step of the request before it wrote.
C15_ValidationFailureWritesNothing ==
  /\ [][\A p \in ForkProcs :
           (fork[p].pc # "failed" /\ fork'[p].pc = "failed"
              /\ fork'[p].error \in ValidationErrors) =>
             (conversations' = conversations /\ messages' = messages)]_vars
  /\ [][\A p \in ForkProcs :
           (fork'[p] # fork[p] /\ fork'[p].pc \in {"findMessage", "findUpTo"}) =>
             (conversations' = conversations /\ messages' = messages)]_vars

\* C15 witness: a fork at a message id that does not exist was rejected while
\* the store held conversations and messages.
C15_Witness ==
  \E p \in ForkProcs :
    /\ fork[p].error = "MESSAGE_NOT_FOUND"
    /\ Exists(fork[p].conversationId)
    /\ messages # {}

MarkerCount(title) == Cardinality({i \in 1..Len(title) : title[i] = BranchMarker})

EndsWithMarker(title) == title # <<>> /\ title[Len(title)] = BranchMarker

\* C16: a fork of a conversation whose title ends in the marker gets the same
\* title; a fork's title holds at most one marker more than its source's, and
\* none more when the source's holds one; so over chains of forks (and renames
\* to titles with at most one marker) no title holds the marker twice.
C16_MarkerNotDuplicated ==
  /\ \A p \in ForkProcs :
       fork[p].newConversation # NoRow =>
         LET old == fork[p].sourceConversation.title
             new == fork[p].newConversation.title
         IN /\ EndsWithMarker(old) => new = old
            /\ MarkerCount(new) <= MarkerCount(old) + 1
            /\ MarkerCount(old) >= 1 => MarkerCount(new) = MarkerCount(old)
  /\ \A c \in conversations : MarkerCount(c.title) <= 1

\* C16 witness: a fork of a fork, whose source's title ends in the marker.
C16_Witness ==
  \E p \in ForkProcs :
    /\ fork[p].pc = "done"
    /\ fork[p].sourceConversation.parentConversationId # NULL
    /\ EndsWithMarker(fork[p].sourceConversation.title)
    /\ fork[p].newConversation.title = fork[p].sourceConversation.title

\* C17: every conversation a fork creates has a title that ends with the
\* marker, whatever the source's title is.
C17_ForkTitleEndsWithMarker ==
  \A p \in ForkProcs :
    fork[p].newConversation # NoRow => EndsWithMarker(fork[p].newConversation.title)

\* C18: the conversation a successful fork returns has an id no conversation
\* had when it was inserted (nor the source, found when the call began), its
\* parentConversationId is the request's conversation and its
\* branchFromMessageId the request's message.
C18_ForkReturnsLineage ==
  /\ [][\A p \in ForkProcs :
           (fork[p].newConversation = NoRow /\ fork'[p].newConversation # NoRow) =>
             /\ \A c \in conversations : c.id # fork'[p].newConversation.id
             /\ fork'[p].newConversation \in conversations']_vars
  /\ [](\A p \in ForkProcs :
          fork[p].pc = "done" =>
            /\ fork[p].newConversation.id # fork[p].sourceConversation.id
            /\ fork[p].newConversation.parentConversationId = fork[p].conversationId
            /\ fork[p].newConversation.branchFromMessageId = fork[p].messageId)

\* C18 witness: a fork of the second conversation succeeded while three
\* conversations exist.
C18_Witness ==
  \E p \in ForkProcs :
    /\ fork[p].pc = "done"
    /\ fork[p].conversationId = 2
    /\ Cardinality(conversations) = 3

\* C19: in every state, a conversation has a branchFromMessageId exactly when
\* it has a parentConversationId.
C19_LineageFieldsTogether ==
  \A c \in conversations :
    (c.branchFromMessageId # NULL) <=> (c.parentConversationId # NULL)

\* C19 witness: a fork with both fields set next to a fork (it holds two
\* copies) whose parent was deleted and that has neither.
C19_Witness ==
  \E a, b \in conversations :
    /\ a.parentConversationId # NULL /\ a.branchFromMessageId # NULL
    /\ b.parentConversationId = NULL /\ b.branchFromMessageId = NULL
    /\ \E m \in MessagesOf(b.id) : m.pos = 2

\* C20: in every state, a conversation with both lineage fields names an
\* existing message of the conversation it names as its parent.
C20_BranchPointInParent ==
  \A c \in conversations :
    (c.branchFromMessageId # NULL /\ c.parentConversationId # NULL) =>
      \E m \in messages :
        m.id = c.branchFromMessageId /\ m.conversationId = c.parentConversationId

\* C20 witness: a fork whose source was deleted after its checks had passed;
\* the store rejected the branch row.
C20_Witness ==
  \E p \in ForkProcs :
    /\ fork[p].pc = "failed"
    /\ fork[p].error = "STORE_ERROR"
    /\ fork[p].newConversation = NoRow
    /\ fork[p].forkMessage # NoRow
    /\ ~Exists(fork[p].conversationId)

\* The send route over the store: a send request runs while conversations are
\* deleted.
NextSend ==
  \/ \E id \in ConvIds : DeleteConversation(id)
  \/ SendNext

SpecSend == Init /\ [][NextSend]_vars

\* ------------------------------------------------------- stream relay: claims
\* The assistant messages the running send request has appended.
RequestAssistantRows ==
  {m \in MessagesOf(send.conversationId) :
     m.role = "assistant" /\ m.createdAt > send.userMessage.createdAt}

\* The frames the response stream carried: those read and those still queued.
Frames == send.received \o send.queue

IsTerminal(frame) == frame.type \in {"done", "error"}

\* C5: the request has appended no assistant message before the provider's
\* end of stream, exactly one, holding the full text, once the save succeeded,
\* and never two.
C5_OneAssistantMessage ==
  send.pc = "streaming" =>
    /\ Cardinality(RequestAssistantRows) <= 1
    /\ send.upstream = "open" => RequestAssistantRows = {}
    /\ ~send.saved => RequestAssistantRows = {}
    /\ (send.saved /\ Exists(send.conversationId)) =>
         /\ send.fullResponse = "resolved"
         /\ \E m \in RequestAssistantRows :
              RequestAssistantRows = {m} /\ m.content = send.emitted

\* C5 witness: two chunks were streamed and the reply was saved.
C5_Witness ==
  /\ send.saved
  /\ Len(send.emitted) = 2
  /\ Cardinality(RequestAssistantRows) = 1
  /\ send.state = "closed"

\* C6: a response stream that ended without the client leaving carries exactly
\* one terminal frame, and it is its last frame.
C6_OneTerminalFrameLast ==
  (send.pc = "streaming" /\ send.state \in {"closed", "errored"}
                         /\ Exists(send.conversationId)) =>
    /\ Frames # <<>>
    /\ IsTerminal(Frames[Len(Frames)])
    /\ \A i \in 1..(Len(Frames) - 1) : ~IsTerminal(Frames[i])

\* C7: when generation fails, the request persists no assistant message.
C7_FailedGenerationSavesNothing ==
  (send.pc = "streaming" /\ send.fullResponse = "rejected") => RequestAssistantRows = {}

\* C7 witness: generation failed after a chunk was forwarded, and the response
\* stream is over.
C7_Witness ==
  /\ send.fullResponse = "rejected"
  /\ send.readPos >= 1
  /\ send.state \in {"closed", "errored"}
  /\ Exists(send.conversationId)

\* C8: when the client leaves before the provider's stream has completed, the
\* request persists no assistant message.
C8_CancelSavesNothing ==
  (send.pc = "streaming" /\ send.cancelledBeforeEnd /\ Exists(send.conversationId)) =>
    RequestAssistantRows = {}

\* C9: the terminal frame sent when generation failed is not the frame that
\* reports a failed save.
C9_SaveFailureFrameDistinct ==
  (send.pc = "streaming" /\ send.fullResponse = "rejected" /\ Exists(send.conversationId)) =>
    \A i \in 1..Len(Frames) : Frames[i] # SaveErrorFrame

IsChunk(frame) == frame.type = "chunk"

\* The texts of the chunk frames the response stream carried, in order.
ChunksSent ==
  LET chunks == SelectSeq(Frames, IsChunk)
  IN [i \in 1..Len(chunks) |-> chunks[i].payload]

\* C21: while the response stream is open or has closed normally, the chunks
\* it carried are the chunks read from the provider so far, in the provider's
\* order, each once and as it was; no chunk follows the terminal frame.
C21_ChunksForwardedInOrder ==
  (send.pc = "streaming" /\ send.state \in {"readable", "closed"}) =>
    /\ ChunksSent = SubSeq(send.emitted, 1, send.readPos)
    /\ \A i, j \in 1..Len(Frames) : (IsTerminal(Frames[i]) /\ IsChunk(Frames[j])) => j < i

\* C21 witness: the client has read two chunks and the provider's stream is
\* still open.
C21_Witness ==
  /\ send.upstream = "open"
  /\ send.state = "readable"
  /\ Len(send.received) = 2
  /\ send.readPos = 2

\* C22: once the response stream is cancelled, no further chunk is read from
\* the provider's stream, and that stream is no longer open to be read (its
\* reader was cancelled or released, or it had ended).
C22_CancelStopsUpstream ==
  /\ [][(send.state = "cancelled" /\ send'.pc = "streaming") =>
          send'.readPos = send.readPos]_vars
  /\ []((send.pc = "streaming" /\ send.state = "cancelled" /\ send.pull = "idle"
           /\ Exists(send.conversationId)) =>
          send.upstream # "open")

IsRoot(conversationId) ==
  \E c \in conversations : c.id = conversationId /\ c.parentConversationId = NULL

\* Concurrent fork requests over a store whose root conversations are created
\* and appended to; nobody else writes to a branch.
NextForks ==
  \/ \E t \in Titles : CreateConversation(t)
  \/ \E c \in ConvIds, turn \in Turns : IsRoot(c) /\ AddMessage(c, turn.role, turn.content)
  \/ ForkNext(ForkProcs, AppendedIds)

SpecForks == Init /\ [][NextForks]_vars

\* What fork request p produces when it runs alone: the branch row with its own
\* lineage, holding one copy of each message of its own prefix and nothing else.
BranchAsAlone(p) ==
  LET branch == MessagesOf(fork[p].newConversation.id)
  IN /\ fork[p].newConversation \in conversations
     /\ fork[p].newConversation.parentConversationId = fork[p].conversationId
     /\ fork[p].newConversation.branchFromMessageId = fork[p].messageId
     /\ Cardinality(branch) = Cardinality(SourcePrefix(p))
     /\ \A m \in branch \cup SourcePrefix(p) :
          Count(branch, Value(m)) = Count(SourcePrefix(p), Value(m))

\* C23: two forks of one source at two different messages, their steps
\* interleaved in any order: neither is refused a row because of the other, and
\* each finished one has the branch it produces alone, sharing no row with the
\* other's.
C23_ConcurrentForksIndependent ==
  \A p, q \in ForkProcs :
    (p # q /\ fork[p].conversationId = fork[q].conversationId
           /\ fork[p].messageId # fork[q].messageId
           /\ fork[q].forkMessage # NoRow
           /\ fork[q].error \notin ValidationErrors) =>
      /\ (fork[p].pc = "failed" /\ fork[p].error = "STORE_ERROR") =>
            fork[p].newConversation # NoRow
      /\ fork[p].pc = "done" =>
            /\ BranchAsAlone(p)
            /\ fork[q].newConversation # NoRow =>
                  /\ fork[p].newConversation.id # fork[q].newConversation.id
                  /\ {m.id : m \in MessagesOf(fork[p].newConversation.id)} \cap
                       {m.id : m \in MessagesOf(fork[q].newConversation.id)} = {}

\* C23 witness: a fork at the second message finished between the two inserts
\* of a fork of the same source at the first message.
C23_Witness ==
  \E p, q \in ForkProcs :
    /\ fork[p].conversationId = fork[q].conversationId
    /\ fork[p].pc = "done" /\ Len(fork[p].messagesToCopy) = 2
    /\ fork[q].pc = "insertMessages" /\ Len(fork[q].messagesToCopy) = 1
    /\ fork[q].newConversation.id < fork[p].newConversation.id

\* C24: against one store, the range read has one possible result for each
\* conversation and cutoff (so two calls return the same rows in the same
\* order), the rows with one createdAt coming in the order of their ids.
C24_RangeReadReproducible ==
  \A c \in conversations : \A m \in MessagesOf(c.id) :
    \A rows, again \in findMessagesUpToId(c.id, m.createdAt) :
      /\ rows = again
      /\ \A i, j \in 1..Len(rows) :
           (i < j /\ rows[i].createdAt = rows[j].createdAt) => rows[i].id < rows[j].id

Last(s) == s[Len(s)]

\* C25: the user message is in the store before the provider is asked: the
\* history read for the provider (of a conversation that still exists) ends
\* with it, the provider's stream opens only after it, and every row the
\* request appends while streaming is an assistant row later than it.
C25_UserMessageBeforeGeneration ==
  /\ [][(send.pc = "getHistory" /\ send'.pc = "streaming" /\ Exists(send.conversationId)) =>
          /\ send'.history # <<>>
          /\ Last(send'.history).id = send.userMessage.id
          /\ Last(send'.history).role = "user"
          /\ Last(send'.history).content = send.content]_vars
  /\ [][(send.pc = "streaming" /\ messages' # messages) =>
          \A m \in messages' \ messages :
            m.role = "assistant" /\ m.createdAt > send.userMessage.createdAt]_vars
  /\ [](send.upstream # "none" => send.userMessage # NoRow)

\* C25 witness: a second message sent to a conversation; the history read for
\* the provider held both user messages and the reply was saved.
C25_Witness ==
  /\ send.saved
  /\ Len(send.history) = 2
  /\ Last(send.history).id = send.userMessage.id
  /\ Cardinality(MessagesOf(send.conversationId)) = 3

\* The conversation reached from id by following parentConversationId k times
\* (NULL when the chain ends earlier).
RECURSIVE KthParent(_, _)
KthParent(id, k) ==
  IF k = 0 \/ id = NULL THEN id
  ELSE KthParent(findConversationById(id).parentConversationId, k - 1)

\* C26: the parent links form a forest: every link leads to an existing
\* conversation, none to the conversation itself, and following the links from
\* a conversation never comes back to it.
C26_ParentLinksFormForest ==
  \A c \in conversations :
    /\ c.parentConversationId # c.id
    /\ c.parentConversationId = NULL \/ Exists(c.parentConversationId)
    /\ \A k \in 1..Cardinality(conversations) : KthParent(c.id, k) # c.id

\* C26 witness: a fork of a fork: a chain of three conversations.
C26_Witness ==
  \E c \in conversations :
    /\ KthParent(c.id, 1) # NULL
    /\ KthParent(c.id, 2) # NULL
    /\ KthParent(c.id, 3) = NULL

\* ------------------------------------------------------------ MessageBubble
\* Roles a bubble is rendered for: the two the store holds and two others.
Roles == {"user", "assistant", "system", "User"}

\* Mutant: everything that is not an assistant message is laid out as the
\* user's.
MessageBubbleForAssistant(role, content) ==
  LET isUser == role # "assistant"
  IN [className |-> IF isUser THEN "justify-end" ELSE "justify-start",
      icon |-> IF isUser THEN "User" ELSE "Bot",
      body |-> IF isUser THEN [element |-> "p", content |-> content]
               ELSE [element |-> "MarkdownContent", content |-> content]]

\* The element MessageBubble returns: the wrapper's alignment class, the icon,
\* and the element that shows the content.
MessageBubble(role, content) ==
  LET isUser == role = "user"
  IN [className |-> IF isUser THEN "justify-end" ELSE "justify-start",
      icon |-> IF isUser THEN "User" ELSE "Bot",
      body |-> IF isUser THEN [element |-> "p", content |-> content]
               ELSE [element |-> "MarkdownContent", content |-> content]]

NextSendLive ==
  \/ \E id \in ConvIds : DeleteConversation(id)
  \/ \E content \in UserContents : SendCreateConversation(content)
  \/ SendAddUserMessage
  \/ \E content \in UserContents, c \in ConvIds : SendToConversation(content, c)
  \/ \E providerOk \in BOOLEAN : SendGetHistory(providerOk)
  \/ ProviderEmit
  \/ ProviderComplete
  \/ \E streamErrors \in BOOLEAN : ProviderFail(streamErrors)
  \/ PullStart
  \/ PullReadChunk
  \/ PullReadError
  \/ PullReadDone
  \/ \E storeOk \in BOOLEAN : PullSave(storeOk)
  \/ ClientRead

\* The provider's stream ends; the runtime runs a pull that can run and
\* resumes one whose await has settled; the client reads what is queued.
SendFairness ==
  /\ WF_vars(ProviderComplete \/ \E streamErrors \in BOOLEAN : ProviderFail(streamErrors))
  /\ WF_vars(PullStart)
  /\ WF_vars(PullReadChunk)
  /\ WF_vars(PullReadError)
  /\ WF_vars(PullReadDone)
  /\ WF_vars(\E storeOk \in BOOLEAN : PullSave(storeOk))
  /\ WF_vars(ClientRead)

SpecSendLive == Init /\ [][NextSendLive]_vars /\ SendFairness

\* The client has read the terminal frame and the response stream is closed.
TerminalDelivered ==
  /\ send.state = "closed"
  /\ send.received # <<>>
  /\ IsTerminal(Last(send.received))

\* C28: when the client keeps reading and the provider's stream ends, by
\* completing or by failing, an opened response stream eventually delivers its
\* terminal frame and is closed.
C28_TerminalFrameEventually ==
  (send.pc = "streaming") ~> TerminalDelivered

\* C29: every stored message belongs to a conversation that exists, whatever
\* the interleaving of appends, fork copies and deletions.
C29_NoOrphanMessage ==
  \A m \in messages : Exists(m.conversationId)

\* A fork's copy was refused after its new conversation had been deleted, and
\* other conversations still hold messages.
C29_Witness ==
  /\ messages # {}
  /\ \E p \in ForkProcs :
        /\ fork[p].pc = "failed"
        /\ fork[p].error = "STORE_ERROR"
        /\ fork[p].newConversation # NoRow
        /\ fork[p].messagesToCopy # <<>>
        /\ ~Exists(fork[p].newConversation.id)
        /\ MessagesOf(fork[p].newConversation.id) = {}

\* The request appended its user message, and generation or the save of the
\* reply failed.
SendFailed ==
  /\ send.userMessage # NoRow
  /\ \/ send.pc = "failed"
     \/ send.fullResponse = "rejected"
     \/ \E i \in 1..Len(Frames) : Frames[i] = SaveErrorFrame

\* The request's user message is stored and is the newest row of its conversation.
EndsWithUserMessage ==
  \E m \in MessagesOf(send.conversationId) :
    /\ m.id = send.userMessage.id
    /\ m.role = "user"
    /\ m.content = send.content
    /\ \A n \in MessagesOf(send.conversationId) : n # m => n.createdAt < m.createdAt

\* C30: no step of a send request removes a conversation or a message, and once
\* generation or the save has failed, the conversation (unless someone deleted
\* it) still ends with the request's user message, with no reply after it.
C30_NoRollbackOnFailure ==
  [][send' # send =>
       /\ conversations \subseteq conversations'
       /\ messages \subseteq messages'
       /\ (SendFailed' /\ Exists(send.conversationId)') => EndsWithUserMessage']_vars

\* C30 witness: the request created its conversation, generation completed, the
\* save failed and the client has read the error frame; the conversation is
\* there and holds the user message alone.
C30_Witness ==
  /\ send.fullResponse = "resolved"
  /\ send.state = "closed"
  /\ send.received # <<>>
  /\ Last(send.received) = SaveErrorFrame
  /\ Exists(send.conversationId)
  /\ EndsWithUserMessage
  /\ Cardinality(MessagesOf(send.conversationId)) = 1
====
